---- MODULE Spec2Model ----
(***************************************************************************)
(* Model of fauna-types: the signature parser (src/cli/parseFaunaType.ts)  *)
(* and the declaration emitter (src/cli/typesGenerator.ts, duplicated in   *)
(* the second half of parseFaunaType.ts).                                  *)
(*                                                                         *)
(* JavaScript strings are TLA+ strings; TLC evaluates Len, SubSeq and \o   *)
(* on them, so every string method of the source is modelled character by  *)
(* character.                                                              *)
(***************************************************************************)
EXTENDS Integers, Sequences, FiniteSets, TLC

(***************************************************************************)
(* Bounds of the model.                                                    *)
(***************************************************************************)
\* longest raw text over Alphabet that the parser specification enumerates
MaxLen == 3
\* how many wrappers the parser specification puts around an atom
MaxWrap == 2
\* how many records a batch handed to generateTypes holds
MaxBatch == 2
\* frames the call stack holds before the engine raises RangeError
MaxCallDepth == 10

(***************************************************************************)
(* String.prototype methods used by the source.                            *)
(***************************************************************************)
\* Body applied to the value of `value`, which is evaluated once: the `const`
\* bindings of the source
Bind(value, Body(_)) == CHOOSE r \in {Body(v) : v \in {value}} : TRUE

Min(a, b) == IF a < b THEN a ELSE b

Max(a, b) == IF a > b THEN a ELSE b

\* str[i] of JavaScript, 0-based
charAt(str, i) == SubSeq(str, i + 1, i + 1)

\* what String.prototype.trim removes (the characters of it the model uses)
IsWhiteSpace(c) == c \in {" ", "\t", "\n"}

\* str.slice(from, to): negative indices count from the end
slice(str, from, to) ==
  LET n == Len(str)
      a == IF from < 0 THEN Max(n + from, 0) ELSE Min(from, n)
      b == IF to < 0 THEN Max(n + to, 0) ELSE Min(to, n)
  IN IF a >= b THEN "" ELSE SubSeq(str, a + 1, b)

\* str.slice(from)
sliceFrom(str, from) == slice(str, from, Len(str))

startsWith(str, prefix) ==
  /\ Len(prefix) <= Len(str)
  /\ SubSeq(str, 1, Len(prefix)) = prefix

endsWith(str, suffix) ==
  /\ Len(suffix) <= Len(str)
  /\ SubSeq(str, Len(str) - Len(suffix) + 1, Len(str)) = suffix

\* the indices of str that hold the one-character string c
indicesOf(str, c) == {i \in 0..(Len(str) - 1) : charAt(str, i) = c}

\* str.indexOf(c) for a one-character c: -1 when absent
indexOf(str, c) ==
  Bind(indicesOf(str, c), LAMBDA found :
    IF found = {} THEN -1 ELSE CHOOSE i \in found : \A j \in found : i <= j)

includes(str, c) == indexOf(str, c) # -1

\* index of the first character of str at or after i that trim keeps
RECURSIVE trimStartIndex(_, _)
trimStartIndex(str, i) ==
  IF i < Len(str) /\ IsWhiteSpace(charAt(str, i)) THEN trimStartIndex(str, i + 1)
  ELSE i

\* index after the last character of str before i that trim keeps
RECURSIVE trimEndIndex(_, _)
trimEndIndex(str, i) ==
  IF i > 0 /\ IsWhiteSpace(charAt(str, i - 1)) THEN trimEndIndex(str, i - 1)
  ELSE i

trim(str) == slice(str, trimStartIndex(str, 0), trimEndIndex(str, Len(str)))

\* parts.join(sep), from the k-th part on
RECURSIVE joinFrom(_, _, _)
joinFrom(parts, sep, k) ==
  IF k > Len(parts) THEN ""
  ELSE IF k = Len(parts) THEN parts[k]
  ELSE parts[k] \o sep \o joinFrom(parts, sep, k + 1)

join(parts, sep) == joinFrom(parts, sep, 1)

\* str.split(c) for a one-character separator: the pieces between the
\* occurrences of c, the k-th occurrence being the one with k - 1 before it
split(str, c) ==
  Bind(indicesOf(str, c), LAMBDA found :
    Bind([i \in found |-> Cardinality({j \in found : j < i})], LAMBDA before :
      LET cut(k) == IF k = 0 THEN -1
                    ELSE IF k > Cardinality(found) THEN Len(str)
                    ELSE CHOOSE i \in found : before[i] = k - 1
      IN [k \in 1..(Cardinality(found) + 1) |-> slice(str, cut(k - 1) + 1, cut(k))]))

\* arr.filter(Boolean) on an array of strings: drops the empty ones
filterBoolean(arr) == SelectSeq(arr, LAMBDA e : e # "")

(***************************************************************************)
(* parseFaunaType.ts: the bracket-depth scans.                             *)
(***************************************************************************)
\* depthAfter with the angle brackets left uncounted
depthAfter_BracesOnly(depth, c) ==
  LET up == IF c = "{" THEN depth + 1 ELSE depth
  IN IF c = "}" THEN up - 1 ELSE up

\* the two depth updates every scan makes on character c
\* (`if (c === "{" || c === "<") depth++; if (c === "}" || c === ">") depth--`)
depthAfter(depth, c) ==
  LET up == IF c = "{" \/ c = "<" THEN depth + 1 ELSE depth
  IN IF c = "}" \/ c = ">" THEN up - 1 ELSE up

\* the counter after iterations lo..hi - 1 of a scan's loop, entered with the
\* counter at depth; the range is run as two halves, one after the other
RECURSIVE depthOver(_, _, _, _)
depthOver(str, lo, hi, depth) ==
  IF hi <= lo THEN depth
  ELSE IF hi = lo + 1 THEN depthAfter(depth, charAt(str, lo))
  ELSE Bind(depthOver(str, lo, (lo + hi) \div 2, depth),
            LAMBDA half : depthOver(str, (lo + hi) \div 2, hi, half))

\* the value of the scans' depth counter once str[0..i] has been read
depthAt(str, i) == depthOver(str, 0, i + 1, 0)

\* isTopLevelUnion before its loop: the counter at 0, nothing returned yet
isTopLevelUnionStart == [depth |-> 0, found |-> FALSE]

\* iteration i of isTopLevelUnion's loop; found once it has returned true
isTopLevelUnionStep(str, st, i) ==
  IF st.found THEN st
  ELSE LET c == charAt(str, i)
           d == depthAfter(st.depth, c)
       IN [depth |-> d, found |-> c = "|" /\ d = 0]

\* iterations lo..hi - 1 of isTopLevelUnion's loop, entered in state st; the
\* range is run as two halves, one after the other
RECURSIVE isTopLevelUnionFrom(_, _, _, _)
isTopLevelUnionFrom(str, lo, hi, st) ==
  IF hi <= lo THEN st
  ELSE IF hi = lo + 1 THEN isTopLevelUnionStep(str, st, lo)
  ELSE Bind(isTopLevelUnionFrom(str, lo, (lo + hi) \div 2, st),
            LAMBDA half : isTopLevelUnionFrom(str, (lo + hi) \div 2, hi, half))

\* isTopLevelUnion were the object-literal test made before the union test
isTopLevelUnion_ObjectFirst(str) ==
  /\ ~(startsWith(str, "{") /\ endsWith(str, "}"))
  /\ isTopLevelUnionFrom(str, 0, Len(str), isTopLevelUnionStart).found

\* isTopLevelUnion deciding by the presence of "|" alone, as createType does
isTopLevelUnion_AnyBar(str) == includes(str, "|")

isTopLevelUnion(str) ==
  isTopLevelUnionFrom(str, 0, Len(str), isTopLevelUnionStart).found

\* a split before its loop: `depth = 0`, `start = 0`, `parts = []`; cuts
\* records the indices at which the loop has pushed a part
splitStart == [depth |-> 0, start |-> 0, parts |-> <<>>, cuts |-> {}]

\* iteration i of splitUnion's loop
splitUnionStep(str, st, i) ==
  LET c == charAt(str, i)
      d == depthAfter(st.depth, c)
  IN IF c = "|" /\ d = 0
     THEN [depth |-> d, start |-> i + 1,
           parts |-> Append(st.parts, trim(slice(str, st.start, i))),
           cuts |-> st.cuts \cup {i}]
     ELSE [st EXCEPT !.depth = d]

\* iterations lo..hi - 1 of splitUnion's loop, entered in state st
RECURSIVE splitUnionFrom(_, _, _, _)
splitUnionFrom(str, lo, hi, st) ==
  IF hi <= lo THEN st
  ELSE IF hi = lo + 1 THEN splitUnionStep(str, st, lo)
  ELSE Bind(splitUnionFrom(str, lo, (lo + hi) \div 2, st),
            LAMBDA half : splitUnionFrom(str, (lo + hi) \div 2, hi, half))

\* the loop, then `parts.push(str.slice(start).trim())`
splitUnion(str) ==
  Bind(splitUnionFrom(str, 0, Len(str), splitStart), LAMBDA st :
    Append(st.parts, trim(sliceFrom(str, st.start))))

\* iteration i of splitObjectProperties' loop
splitObjectPropertiesStep(inside, st, i) ==
  LET c == charAt(inside, i)
      d == depthAfter(st.depth, c)
  IN IF c = "," /\ d = 0
     THEN [depth |-> d, start |-> i + 1,
           parts |-> Append(st.parts, trim(slice(inside, st.start, i))),
           cuts |-> st.cuts \cup {i}]
     ELSE [st EXCEPT !.depth = d]

\* iterations lo..hi - 1 of splitObjectProperties' loop, entered in state st
RECURSIVE splitObjectPropertiesFrom(_, _, _, _)
splitObjectPropertiesFrom(inside, lo, hi, st) ==
  IF hi <= lo THEN st
  ELSE IF hi = lo + 1 THEN splitObjectPropertiesStep(inside, st, lo)
  ELSE Bind(splitObjectPropertiesFrom(inside, lo, (lo + hi) \div 2, st),
            LAMBDA half :
              splitObjectPropertiesFrom(inside, (lo + hi) \div 2, hi, half))

\* the loop, the last push, then `.filter(Boolean)`
splitObjectProperties(inside) ==
  Bind(splitObjectPropertiesFrom(inside, 0, Len(inside), splitStart), LAMBDA st :
    filterBoolean(Append(st.parts, trim(sliceFrom(inside, st.start)))))

\* the indices at which splitUnion cuts str
unionSplitPoints(str) == splitUnionFrom(str, 0, Len(str), splitStart).cuts

\* the indices at which splitObjectProperties cuts inside
propertySplitPoints(inside) ==
  splitObjectPropertiesFrom(inside, 0, Len(inside), splitStart).cuts

(***************************************************************************)
(* parseFaunaType.ts: parseFaunaType and parseFaunaObjectLiteral.  A call  *)
(* returns [raised, text]: raised is TRUE when the call ends in an         *)
(* exception (the only one the code can meet is the engine's RangeError    *)
(* when the call stack is exhausted), text is the returned string.         *)
(***************************************************************************)
Modes == {"main", "create", "faunaCreate"}

Returned(text) == [raised |-> FALSE, text |-> text]

Raised == [raised |-> TRUE, text |-> ""]

\* step 1 of parseFaunaType with the trailing "?" kept
stripOptional_KeepsMark(signature) == trim(signature)

\* step 1 of parseFaunaType: trim, then drop one trailing "?" and trim again
stripOptional(signature) ==
  LET trimmed == trim(signature)
  IN IF endsWith(trimmed, "?") THEN trim(slice(trimmed, 0, -1)) ELSE trimmed

\* step 5 of parseFaunaType with faunaCreate rendered as create is
renderRef_NoFaunaCreate(inside, mode) ==
  IF mode = "main" THEN inside ELSE inside \o " | DocumentReference"

\* step 5 of parseFaunaType
renderRef(inside, mode) ==
  IF mode = "create" THEN inside \o " | DocumentReference"
  ELSE IF mode = "faunaCreate" THEN "DocumentReference"
  ELSE inside

\* step 6 of parseFaunaType deciding by prefix, as getFieldType does
scalarType_ByPrefix(trimmed) ==
  CASE startsWith(trimmed, "String") -> "string"
    [] startsWith(trimmed, "Boolean") -> "boolean"
    [] startsWith(trimmed, "Long") -> "number"
    [] startsWith(trimmed, "Int") -> "number"
    [] startsWith(trimmed, "Time") -> "TimeStub"
    [] startsWith(trimmed, "Date") -> "DateStub"
    [] startsWith(trimmed, "Null") -> "null"
    [] OTHER -> trimmed

\* step 6 of parseFaunaType: the switch over the known scalars
scalarType(trimmed) ==
  CASE trimmed = "String" -> "string"
    [] trimmed = "Boolean" -> "boolean"
    [] trimmed = "Long" -> "number"
    [] trimmed = "Int" -> "number"
    [] trimmed = "Time" -> "TimeStub"
    [] trimmed = "Date" -> "DateStub"
    [] trimmed = "Null" -> "null"
    [] OTHER -> trimmed

isObjectLiteral(trimmed) == startsWith(trimmed, "{") /\ endsWith(trimmed, "}")

isArray(trimmed) == startsWith(trimmed, "Array<") /\ endsWith(trimmed, ">")

isRef(trimmed) == startsWith(trimmed, "Ref<") /\ endsWith(trimmed, ">")

\* `trimmed.slice("Array<".length, -1).trim()`
arrayInside(trimmed) == trim(slice(trimmed, Len("Array<"), -1))

\* `trimmed.slice(4, -1).trim()`
refInside(trimmed) == trim(slice(trimmed, 4, -1))

\* `objSignature.slice(1, -1).trim()` and the split of it
objectProps(objSignature) == splitObjectProperties(trim(slice(objSignature, 1, -1)))

\* the key of a property with a trailing "?" taken off it
propKey_WithoutMark(prop) ==
  LET key == trim(slice(prop, 0, indexOf(prop, ":")))
  IN IF endsWith(key, "?") THEN trim(slice(key, 0, -1)) ELSE key

propKey(prop) == trim(slice(prop, 0, indexOf(prop, ":")))

propVal(prop) == trim(sliceFrom(prop, indexOf(prop, ":") + 1))

\* results.join(sep) of an array of call results; raised when one call raised
joinResults(results, sep) ==
  Bind(results, LAMBDA rs :
    IF \E k \in 1..Len(rs) : rs[k].raised THEN Raised
    ELSE Returned(join([k \in 1..Len(rs) |-> rs[k].text], sep)))

\* the call result `result` handed on: the exception, or Then of the text
andThen(result, Then(_)) ==
  Bind(result, LAMBDA r : IF r.raised THEN Raised ELSE Then(r.text))

RECURSIVE parseFaunaTypeAt(_, _, _)
RECURSIVE parseFaunaObjectLiteralAt(_, _, _)

\* parseFaunaType entered with `frames` frames left on the call stack
parseFaunaTypeAt(signature, mode, frames) ==
  IF frames = 0 THEN Raised
  ELSE Bind(stripOptional(signature), LAMBDA trimmed :
    IF isTopLevelUnion(trimmed)
    THEN Bind(splitUnion(trimmed), LAMBDA parts :
           joinResults([k \in 1..Len(parts) |->
                          parseFaunaTypeAt(parts[k], mode, frames - 1)], " | "))
    ELSE IF isObjectLiteral(trimmed)
    THEN parseFaunaObjectLiteralAt(trimmed, mode, frames - 1)
    ELSE IF isArray(trimmed)
    THEN andThen(parseFaunaTypeAt(arrayInside(trimmed), mode, frames - 1),
                 LAMBDA parsedInside : Returned("Array<" \o parsedInside \o ">"))
    ELSE IF isRef(trimmed)
    THEN Returned(renderRef(refInside(trimmed), mode))
    ELSE Returned(scalarType(trimmed)))

\* the callback of `props.map` parsing the value in mode main, whatever the
\* caller's mode
parseProp_InMain(prop, mode, frames) ==
  IF indexOf(prop, ":") = -1 THEN Returned(prop)
  ELSE andThen(parseFaunaTypeAt(propVal(prop), "main", frames),
               LAMBDA parsedVal : Returned(propKey(prop) \o ": " \o parsedVal))

\* the callback of `props.map` in parseFaunaObjectLiteral
parseProp(prop, mode, frames) ==
  IF indexOf(prop, ":") = -1 THEN Returned(prop)
  ELSE andThen(parseFaunaTypeAt(propVal(prop), mode, frames),
               LAMBDA parsedVal : Returned(propKey(prop) \o ": " \o parsedVal))

\* parseFaunaObjectLiteral entered with `frames` frames left on the call stack
parseFaunaObjectLiteralAt(objSignature, mode, frames) ==
  IF frames = 0 THEN Raised
  ELSE Bind(objectProps(objSignature), LAMBDA props :
    andThen(joinResults([k \in 1..Len(props) |-> parseProp(props[k], mode, frames - 1)],
                        "; "),
            LAMBDA joined : Returned("{ " \o joined \o " }")))

parseFaunaType(signature, mode) == parseFaunaTypeAt(signature, mode, MaxCallDepth)

\* the texts parseFaunaType(signature, _) passes to its recursive calls, the
\* ones parseFaunaObjectLiteral makes on its behalf included
recursiveCalls(signature) ==
  LET trimmed == stripOptional(signature)
  IN IF isTopLevelUnion(trimmed) THEN splitUnion(trimmed)
     ELSE IF isObjectLiteral(trimmed)
     THEN Bind(SelectSeq(objectProps(trimmed), LAMBDA p : indexOf(p, ":") # -1),
               LAMBDA withColon : [k \in 1..Len(withColon) |-> propVal(withColon[k])])
     ELSE IF isArray(trimmed) THEN <<arrayInside(trimmed)>>
     ELSE <<>>

(***************************************************************************)
(* typesGenerator.ts: the field helpers.                                   *)
(***************************************************************************)
checkOptional(value) == endsWith(value, "?")

checkDataType(value, expectedType) == startsWith(value, expectedType)

\* index of the first "<" or ">" of str at or after i; Len(str) when none
RECURSIVE skipPlain(_, _)
skipPlain(str, i) ==
  IF i >= Len(str) \/ charAt(str, i) \in {"<", ">"} THEN i
  ELSE skipPlain(str, i + 1)

\* `(?:[^<>]+|<(?:[^<>]+)>)*>` from index i on, just after the "<" that opens
\* the group: the index after the closing ">", or -1 when it does not match
RECURSIVE matchBracketGroup(_, _)
matchBracketGroup(str, i) ==
  LET j == skipPlain(str, i)
  IN IF j >= Len(str) THEN -1
     ELSE IF charAt(str, j) = ">" THEN j + 1
     ELSE LET k == skipPlain(str, j + 1)
          IN IF k > j + 1 /\ k < Len(str) /\ charAt(str, k) = ">"
             THEN matchBracketGroup(str, k + 1)
             ELSE -1

\* `[^<>]*(?:<...>[^<>]*)*` followed by ">" from index i on: the index of
\* that final ">", or -1 when the pattern does not match from i
RECURSIVE matchArrayBody(_, _)
matchArrayBody(str, i) ==
  LET j == skipPlain(str, i)
  IN IF j >= Len(str) THEN -1
     ELSE IF charAt(str, j) = ">" THEN j
     ELSE LET g == matchBracketGroup(str, j + 1)
          IN IF g = -1 THEN -1 ELSE matchArrayBody(str, g)

\* the start indices at which the Array pattern matches
arrayMatchStarts(signature) ==
  {i \in 0..(Len(signature) - 1) :
     /\ startsWith(sliceFrom(signature, i), "Array<")
     /\ matchArrayBody(signature, i + 6) # -1}

\* the start indices at which /Ref<([^>]+)>/ matches
refMatchStarts(signature) ==
  {i \in 0..(Len(signature) - 1) :
     /\ startsWith(sliceFrom(signature, i), "Ref<")
     /\ LET k == indexOf(sliceFrom(signature, i + 4), ">") IN k >= 1}

SetMin(S) == CHOOSE x \in S : \A y \in S : x <= y

\* extractDataTypeFromNonPrimitiveSignature: `match[1]`; reading [1] of the
\* null that String.prototype.match returns without a match raises TypeError
extractDataTypeFromNonPrimitiveSignature(signatureType, signature) ==
  IF signatureType = "Ref"
  THEN IF refMatchStarts(signature) = {} THEN Raised
       ELSE LET i == SetMin(refMatchStarts(signature))
                rest == sliceFrom(signature, i + 4)
            IN Returned(slice(rest, 0, indexOf(rest, ">")))
  ELSE IF arrayMatchStarts(signature) = {} THEN Raised
       ELSE LET i == SetMin(arrayMatchStarts(signature))
            IN Returned(slice(signature, i + 6, matchArrayBody(signature, i + 6)))

constructTypeValue(value, isArrayField) ==
  IF isArrayField THEN "Array<" \o value \o ">" ELSE value

\* the reference case of getFieldType with every suffix rendered as _Create is
refType_NoFaunaCreate(collName, typeSuffix) ==
  IF typeSuffix # "" THEN collName \o " | DocumentReference" ELSE collName

\* the reference case of getFieldType
refType(collName, typeSuffix) ==
  IF typeSuffix # ""
  THEN IF typeSuffix = "_Create" THEN collName \o " | DocumentReference"
       ELSE "DocumentReference"
  ELSE collName

getFieldType(value, isArrayField, typeSuffix) ==
  CASE checkDataType(value, "String") -> Returned(constructTypeValue("string", isArrayField))
    [] checkDataType(value, "Boolean") -> Returned(constructTypeValue("boolean", isArrayField))
    [] checkDataType(value, "Date") -> Returned(constructTypeValue("DateStub", isArrayField))
    [] checkDataType(value, "Long") -> Returned(constructTypeValue("number", isArrayField))
    [] checkDataType(value, "Int") -> Returned(constructTypeValue("number", isArrayField))
    [] checkDataType(value, "Null") -> Returned(constructTypeValue("null", isArrayField))
    [] checkDataType(value, "Time") -> Returned(constructTypeValue("TimeStub", isArrayField))
    [] checkDataType(value, "Ref<") ->
         andThen(extractDataTypeFromNonPrimitiveSignature("Ref", value),
                 LAMBDA collName :
                   Returned(constructTypeValue(refType(collName, typeSuffix), isArrayField)))
    [] OTHER -> Returned(constructTypeValue(value, isArrayField))

TypeSuffixes == {"", "_Create", "_FaunaCreate"}

\* the two branches of createType on `signature`, the text to resolve
resolveSignature(signature, isArrayField, typeSuffix) ==
  IF includes(signature, "|")
  THEN Bind(split(signature, "|"), LAMBDA signatureTypes :
         joinResults([k \in 1..Len(signatureTypes) |->
                        getFieldType(trim(signatureTypes[k]), isArrayField, typeSuffix)],
                     " | "))
  ELSE getFieldType(signature, isArrayField, typeSuffix)

\* the text createType writes after `key?: ` for a field of this signature
fieldTypeText(fieldSignature, typeSuffix) ==
  IF checkDataType(fieldSignature, "Array<")
  THEN andThen(extractDataTypeFromNonPrimitiveSignature("Array", fieldSignature),
               LAMBDA extracted :
                 resolveSignature(
                   extracted \o (IF checkOptional(fieldSignature) THEN "?" ELSE ""),
                   TRUE, typeSuffix))
  ELSE resolveSignature(fieldSignature, FALSE, typeSuffix)

\* `key` with the optional mark of its signature
keyWithOptionalMark(key, fieldSignature) ==
  key \o (IF checkOptional(fieldSignature) THEN "?" ELSE "")

\* the line createType appends for one entry of `fields`
fieldLine(key, fieldSignature, typeSuffix) ==
  andThen(fieldTypeText(fieldSignature, typeSuffix),
          LAMBDA type :
            Returned("\t" \o keyWithOptionalMark(key, fieldSignature) \o ": "
                       \o type \o ";\n"))

\* createType; fields is the sequence Object.entries(fields) yields
createType(name, fields, typeSuffix) ==
  Bind(fields, LAMBDA entries :
    andThen(joinResults([k \in 1..Len(entries) |->
                           fieldLine(entries[k].key, entries[k].signature, typeSuffix)],
                        ""),
            LAMBDA body :
              Returned("type " \o name \o typeSuffix \o " = {\n" \o body \o "};")))

(***************************************************************************)
(* typesGenerator.ts: generateTypes.  A record of the schema is            *)
(* [name, fields, computed_fields]; fields and computed_fields are         *)
(* [defined, entries], entries being what Object.entries yields: a         *)
(* sequence of [key, signature] with distinct keys, in insertion order.    *)
(***************************************************************************)
Undefined == [defined |-> FALSE, entries |-> <<>>]

Object(entries) == [defined |-> TRUE, entries |-> entries]

Field(key, fieldSignature) == [key |-> key, signature |-> fieldSignature]

hasKey(entries, key) == \E k \in 1..Len(entries) : entries[k].key = key

valueOf(entries, key) ==
  entries[CHOOSE k \in 1..Len(entries) : entries[k].key = key].signature

\* the spread in the other order: Object.entries({ ...computed_fields, ...fields })
\* with the computed signatures kept
spread_ComputedFirst(fields, computed_fields) ==
  computed_fields \o SelectSeq(fields, LAMBDA e : ~hasKey(computed_fields, e.key))

\* Object.entries({ ...fields, ...computed_fields })
spread(fields, computed_fields) ==
  [k \in 1..Len(fields) |->
     IF hasKey(computed_fields, fields[k].key)
     THEN Field(fields[k].key, valueOf(computed_fields, fields[k].key))
     ELSE fields[k]]
    \o SelectSeq(computed_fields, LAMBDA e : ~hasKey(fields, e.key))

\* the main declaration of a record
genericTypes(rec) ==
  IF rec.computed_fields.defined
  THEN createType(rec.name, spread(rec.fields.entries, rec.computed_fields.entries), "")
  ELSE createType(rec.name, rec.fields.entries, "")

\* the _Create declaration written from the merged fields, as the main one is
crudTypeStr_Merged(rec) ==
  IF rec.computed_fields.defined
  THEN createType(rec.name, spread(rec.fields.entries, rec.computed_fields.entries),
                  "_Create")
  ELSE createType(rec.name, rec.fields.entries, "_Create")

crudTypeStr(rec) == createType(rec.name, rec.fields.entries, "_Create")

faunaCrudTypeStr(rec) == createType(rec.name, rec.fields.entries, "_FaunaCreate")

\* what the map callback appends to exportTypeStr
exportEntries(name) ==
  "\n\t" \o name \o ",\n\t" \o name \o "_Create" \o ",\n\t" \o name \o "_Update"
    \o ",\n\t" \o name \o "_Replace" \o ",\n\t" \o name \o "_FaunaCreate"
    \o ",\n\t" \o name \o "_FaunaUpdate" \o ",\n\t" \o name \o "_FaunaReplace" \o ","

\* a mapping entry that also binds the _FaunaCreate type
mappingEntry_WithFauna(name) ==
  "\n\t" \o name \o ": {" \o "\n\t\t" \o "main: " \o name \o ";"
    \o "\n\t\t" \o "create: " \o name \o "_Create;"
    \o "\n\t\t" \o "replace: " \o name \o "_Replace;"
    \o "\n\t\t" \o "update: " \o name \o "_Update;"
    \o "\n\t\t" \o "faunaCreate: " \o name \o "_FaunaCreate;" \o "\n\t" \o "};"

\* what the map callback appends to UserCollectionsTypeMappingStr
mappingEntry(name) ==
  "\n\t" \o name \o ": {" \o "\n\t\t" \o "main: " \o name \o ";"
    \o "\n\t\t" \o "create: " \o name \o "_Create;"
    \o "\n\t\t" \o "replace: " \o name \o "_Replace;"
    \o "\n\t\t" \o "update: " \o name \o "_Update;" \o "\n\t" \o "};"

\* what the map callback returns for a record with fields
recordBlock(name, generic, crud, faunaCrud) ==
  generic \o "\n\n" \o crud \o "\n"
    \o "type " \o name \o "_Replace = " \o name \o "_Create;" \o "\n"
    \o "type " \o name \o "_Update = Partial<" \o name \o "_Create>;" \o "\n\n"
    \o faunaCrud \o "\n"
    \o "type " \o name \o "_FaunaReplace = " \o name \o "_FaunaCreate;" \o "\n"
    \o "type " \o name \o "_FaunaUpdate = Partial<" \o name \o "_FaunaCreate>;"

\* the two copies of generateTypes
Modules == {"typesGenerator", "parseFaunaType"}

\* the elements of the mapped array that `.join("\n\n")` joins: undefined
\* joins as the empty string; the copy in parseFaunaType.ts first drops the
\* undefined elements with `.filter(Boolean)`
joinedElements(blocks, whichModule) ==
  IF whichModule = "parseFaunaType"
  THEN LET kept == SelectSeq(blocks, LAMBDA b : b.defined)
       IN [k \in 1..Len(kept) |-> kept[k].text]
  ELSE [k \in 1..Len(blocks) |-> IF blocks[k].defined THEN blocks[k].text ELSE ""]

importLine == "import { type TimeStub, type DateStub, type DocumentReference } from 'fauna';"

\* the content of the generated file
documentText(blocks, mappingStr, exportStr, whichModule) ==
  importLine \o "\n\n" \o join(joinedElements(blocks, whichModule), "\n\n") \o "\n\n"
    \o mappingStr \o "\n}" \o "\n\n"
    \o exportStr \o "\n\tUserCollectionsTypeMapping\n};" \o "\n"

(***************************************************************************)
(* The inputs the specifications draw from.                                *)
(***************************************************************************)
\* the tokens raw parser inputs are built from
Tokens ==
  {"Array<", "Ref<", "<", ">", "{", "}", "|", ",", ":", "?", " ", "a", "Int"}

\* every concatenation of at most n tokens
RECURSIVE rawTexts(_)
rawTexts(n) ==
  IF n = 0 THEN {""}
  ELSE LET shorter == rawTexts(n - 1)
       IN shorter \cup {t \o s : t \in Tokens, s \in shorter}

\* signatures of the grammar, and near misses of it
Atoms ==
  {"String", "Boolean", "Long", "Int", "Time", "Date", "Null",
   "User", "Stringish", "string", "Strings", "Integer", "Ref<User>", "Ref<A>", "Ref<A> | Ref<B>",
   "{ a: Int, b: { c: String } }", "{ x: String | Boolean }",
   "Array<A> | Array<B>", "{ a: Int } | { b?: Ref<A> }",
   "Array<Ref<A>> | Array<Ref<B>>"}

wrappings(s) ==
  {"Array<" \o s \o ">", s \o "?", " " \o s \o " ", "{ k: " \o s \o " }",
   s \o " | Null", "Array< " \o s \o " >"}

RECURSIVE wrapped(_)
wrapped(n) ==
  IF n = 0 THEN Atoms
  ELSE LET inner == wrapped(n - 1)
       IN inner \cup UNION {wrappings(s) : s \in inner}

\* malformed texts too long for rawTexts
Malformed ==
  {"a> | <b|c>", "}{ k: a, b }", "Array<Ref<>>", "Array<Array<", "Ref<User",
   "{ a: { b: Int }", "> , { a: Int, b: String }",
   "{ k: Int, b, j?: Ref<A> }", "{ a: Int, , b: <c, d> }", "{ a : { b: Int, c: Long }, }"}

Signatures == rawTexts(MaxLen) \cup wrapped(MaxWrap) \cup Malformed

userFields ==
  <<Field("name", "String"), Field("age", "Long?"), Field("bestFriend", "Ref<User>?")>>

orderFields == <<Field("b", "Int"), Field("a", "Boolean"), Field("c", "Time")>>

scalarFields ==
  <<Field("s", "String"), Field("so", "String?"), Field("b", "Boolean"),
    Field("bo", "Boolean?"), Field("l", "Long"), Field("lo", "Long?"),
    Field("i", "Int"), Field("io", "Int?"), Field("t", "Time"), Field("to", "Time?"),
    Field("d", "Date"), Field("do", "Date?"), Field("n", "Null"), Field("no", "Null?")>>

refFields ==
  <<Field("one", "Ref<User>"), Field("opt", "Ref<A>?"),
    Field("many", "Array<Ref<User>>?"), Field("either", "Ref<A> | Ref<B>")>>

otherFields ==
  <<Field("list", "Array<String>"), Field("grid", "Array<Array<String>>"),
    Field("obj", "{ a: Int }"), Field("maybe", "Array<String> | Null"),
    Field("ish", "Stringish"), Field("tag", "Tag"), Field("whole", "Integer"),
    Field("past", "Dated"), Field("label", "Tag?")>>

\* field lists with a signature the extraction patterns do not match
openArrayFields == <<Field("ok", "String"), Field("open", "Array<")>>

emptyRefFields == <<Field("empty", "Ref<>")>>

\* the computed_fields drawn with a record: none, an empty object, one new
\* name, and a new name with the name of the record's last field
ComputedChoices(fields) ==
  {Undefined, Object(<<>>), Object(<<Field("full", "String")>>),
   Object(<<Field("z", "Int"), Field(fields[Len(fields)].key, "Null")>>)}

Record(name, fields, computed_fields) ==
  [name |-> name, fields |-> fields, computed_fields |-> computed_fields]

\* the records a batch is drawn from
Records ==
  {Record("User", Undefined, Undefined),
   Record("Post", Undefined, Object(<<Field("full", "String")>>)),
   Record("Tag", Object(<<>>), Undefined),
   Record("Scalars", Object(scalarFields), Undefined),
   Record("Refs", Object(refFields), Undefined),
   Record("Other", Object(otherFields), Undefined),
   Record("Open", Object(openArrayFields), Undefined),
   Record("Empty", Object(emptyRefFields), Undefined)}
    \cup {Record("User", Object(userFields), c) : c \in ComputedChoices(userFields)}
    \cup {Record("Post", Object(orderFields), c) : c \in ComputedChoices(orderFields)}

(***************************************************************************)
(* State.                                                                  *)
(***************************************************************************)
VARIABLES
  signature,   \* parseFaunaType: the argument `signature`
  mode,        \* parseFaunaType: the argument `mode`
  parsed,      \* parseFaunaType: how the call ended, [raised, text]
  ppc,         \* parseFaunaType: "idle", "called" or "returned"
  module,      \* generateTypes: which copy of it runs
  schema,      \* generateTypes: the records of `schema` the map has visited
  fieldTypes,  \* generateTypes: the array the map has built, [defined, text]
  exportTypeStr,
  UserCollectionsTypeMappingStr,
  typesStr,    \* generateTypes: the text handed to fs.writeFileSync
  pc           \* generateTypes: "idle", "map", "written" or "threw"

parserVars == <<signature, mode, parsed, ppc>>

emitterVars ==
  <<module, schema, fieldTypes, exportTypeStr, UserCollectionsTypeMappingStr, typesStr, pc>>

vars == <<parserVars, emitterVars>>

ParserIdle ==
  /\ signature = ""
  /\ mode = "main"
  /\ parsed = Returned("")
  /\ ppc = "idle"

EmitterStart ==
  /\ schema = <<>>
  /\ fieldTypes = <<>>
  /\ exportTypeStr = "export type {"
  /\ UserCollectionsTypeMappingStr = "interface UserCollectionsTypeMapping {"
  /\ typesStr = ""

(***************************************************************************)
(* The emitter: generateTypes over a batch of records.                     *)
(***************************************************************************)
Init ==
  /\ ParserIdle
  /\ module \in Modules
  /\ EmitterStart
  /\ pc = "map"

\* the map callback on a record without `fields`, were the `if (fields)` to
\* guard the declarations only and the mapping entry be appended all the same
SkipRecord_Mapped(rec) ==
  /\ ~rec.fields.defined
  /\ fieldTypes' = Append(fieldTypes, [defined |-> FALSE, text |-> ""])
  /\ UserCollectionsTypeMappingStr' =
       UserCollectionsTypeMappingStr \o mappingEntry(rec.name)
  /\ UNCHANGED <<exportTypeStr, pc>>

\* the map callback on a record without `fields`: returns undefined
SkipRecord(rec) ==
  /\ ~rec.fields.defined
  /\ fieldTypes' = Append(fieldTypes, [defined |-> FALSE, text |-> ""])
  /\ UNCHANGED <<exportTypeStr, UserCollectionsTypeMappingStr, pc>>

\* the map callback on a record with `fields`, the three createType calls
\* having returned generic, crud and faunaCrud
EmitRecord(rec, generic, crud, faunaCrud) ==
  /\ ~generic.raised /\ ~crud.raised /\ ~faunaCrud.raised
  /\ exportTypeStr' = exportTypeStr \o exportEntries(rec.name)
  /\ UserCollectionsTypeMappingStr' =
       UserCollectionsTypeMappingStr \o mappingEntry(rec.name)
  /\ fieldTypes' = Append(fieldTypes,
       [defined |-> TRUE,
        text |-> recordBlock(rec.name, generic.text, crud.text, faunaCrud.text)])
  /\ UNCHANGED pc

\* the map callback on a record with `fields`, a createType call raising:
\* the exception leaves generateTypes before anything is appended
RaiseInRecord(generic, crud, faunaCrud) ==
  /\ generic.raised \/ crud.raised \/ faunaCrud.raised
  /\ pc' = "threw"
  /\ UNCHANGED <<fieldTypes, exportTypeStr, UserCollectionsTypeMappingStr>>

\* one iteration of `schema.map(...)`
MapRecord ==
  /\ pc = "map"
  /\ Len(schema) < MaxBatch
  /\ \E rec \in Records :
       /\ schema' = Append(schema, rec)
       /\ \/ SkipRecord(rec)
          \/ /\ rec.fields.defined
             /\ \E generic \in {genericTypes(rec)},
                   crud \in {crudTypeStr(rec)},
                   faunaCrud \in {faunaCrudTypeStr(rec)} :
                  \/ EmitRecord(rec, generic, crud, faunaCrud)
                  \/ RaiseInRecord(generic, crud, faunaCrud)
  /\ UNCHANGED <<module, typesStr, parserVars>>

\* the end of the map: the join, the document and fs.writeFileSync
WriteDocument ==
  /\ pc = "map"
  /\ typesStr' = documentText(fieldTypes, UserCollectionsTypeMappingStr,
                              exportTypeStr, module)
  /\ pc' = "written"
  /\ UNCHANGED <<module, schema, fieldTypes, exportTypeStr,
                 UserCollectionsTypeMappingStr, parserVars>>

Next == MapRecord \/ WriteDocument

Spec == Init /\ [][Next]_vars

(***************************************************************************)
(* The parser: one call of parseFaunaType.                                 *)
(***************************************************************************)
InitParse ==
  /\ signature \in Signatures
  /\ mode \in Modes
  /\ parsed = Returned("")
  /\ ppc = "called"
  /\ module = "typesGenerator"
  /\ EmitterStart
  /\ pc = "idle"

Parse ==
  /\ ppc = "called"
  /\ parsed' = parseFaunaType(signature, mode)
  /\ ppc' = "returned"
  /\ UNCHANGED <<signature, mode, emitterVars>>

NextParse == Parse

SpecParse == InitParse /\ [][NextParse]_vars

(***************************************************************************)
(* Vocabulary of the properties: brackets, read off the text itself        *)
(* (independently of the scans' counter), and the identifiers, modes and   *)
(* wrappers the properties quantify over.                                  *)
(***************************************************************************)
isOpener(c) == c \in {"{", "<"}

isCloser(c) == c \in {"}", ">"}

\* openers minus closers among str[a..b] (0-based, inclusive)
netOpen(str, a, b) ==
  Cardinality({x \in a..b : isOpener(charAt(str, x))})
    - Cardinality({x \in a..b : isCloser(charAt(str, x))})

\* index i of str lies inside a bracket pair: some opener before i is still
\* open at i and is closed after i
enclosed(str, i) ==
  \E j \in 0..(i - 1) :
    /\ isOpener(charAt(str, j))
    /\ \A m \in j..(i - 1) : netOpen(str, j, m) > 0
    /\ \E k \in (i + 1)..(Len(str) - 1) : netOpen(str, j, k) = 0

\* no prefix of str closes more brackets than it has opened
neverNegative(str) == \A m \in 0..(Len(str) - 1) : netOpen(str, 0, m) >= 0

\* the text an object literal's properties are split from
objectInside(objSignature) == trim(slice(objSignature, 1, -1))

\* the top-level call of parseFaunaType cuts no text inside a bracket pair
cutsOutsideBrackets(trimmed) ==
  IF isTopLevelUnion(trimmed)
  THEN \A i \in unionSplitPoints(trimmed) : ~enclosed(trimmed, i)
  ELSE isObjectLiteral(trimmed) =>
         \A i \in propertySplitPoints(objectInside(trimmed)) :
           ~enclosed(objectInside(trimmed), i)

Identifiers == {"User", "A"}

RECURSIVE arrayOf(_, _)
arrayOf(n, inner) == IF n = 0 THEN inner ELSE "Array<" \o arrayOf(n - 1, inner) \o ">"

RECURSIVE shrinking(_)
\* every text handed to a recursive call, at any depth, is shorter than the
\* text of the call that hands it on
shrinking(text) ==
  \A k \in 1..Len(recursiveCalls(text)) :
    /\ Len(recursiveCalls(text)[k]) < Len(text)
    /\ shrinking(recursiveCalls(text)[k])

(***************************************************************************)
(* Properties of the parser, checked under SpecParse.                      *)
(***************************************************************************)

\* C2 as stated: for every signature, no `|` or `,` that lies inside {...} or
\* <...> is a split point of the union split or of the object-property split.
C2_SplitsOnlyOutsideBrackets ==
  ppc = "returned" => cutsOutsideBrackets(stripOptional(signature))

\* C2 (amended): the splits cut exactly at the separators where the scans'
\* counter is 0; for every signature no prefix of which closes more brackets
\* than it opened, a separator inside {...} or <...> is never a split point;
\* and parse("{ x: String | Boolean }", main) is one object literal with the
\* single property `x: string | boolean`.
C2_SplitsAtCounterZero ==
  ppc = "returned" =>
    LET trimmed == stripOptional(signature)
    IN /\ unionSplitPoints(trimmed) =
            {i \in 0..(Len(trimmed) - 1) :
               charAt(trimmed, i) = "|" /\ depthAt(trimmed, i) = 0}
       /\ Len(splitUnion(trimmed)) = Cardinality(unionSplitPoints(trimmed)) + 1
       /\ neverNegative(trimmed) => cutsOutsideBrackets(trimmed)
       /\ (isObjectLiteral(trimmed) /\ neverNegative(objectInside(trimmed))) =>
            \A i \in propertySplitPoints(objectInside(trimmed)) :
              ~enclosed(objectInside(trimmed), i)
       /\ (signature = "{ x: String | Boolean }" /\ mode = "main") =>
            parsed = Returned("{ x: string | boolean }")

C2_Witness ==
  /\ ppc = "returned"
  /\ signature = "{ k: { x: String | Boolean } | Null }"
  /\ mode = "main"
  /\ parsed = Returned("{ k: { x: string | boolean } | null }")

\* C3: Ref<X> inside n Array wrappers renders as X (main), X | DocumentReference
\* (create) or DocumentReference alone (faunaCreate), the wrappers kept; in
\* faunaCreate the output does not depend on X.
C3_RefInsideArrays ==
  ppc = "returned" =>
    \A X \in Identifiers, n \in 0..MaxWrap :
      signature = arrayOf(n, "Ref<" \o X \o ">") =>
        parsed = Returned(arrayOf(n,
                   CASE mode = "main" -> X
                     [] mode = "create" -> X \o " | DocumentReference"
                     [] mode = "faunaCreate" -> "DocumentReference"))

C3_Witness ==
  /\ ppc = "returned"
  /\ signature = "Array<Array<Ref<User>>>"
  /\ mode = "create"
  /\ parsed = Returned("Array<Array<User | DocumentReference>>")

\* C4 as stated: for every text X and mode m, parse(X + "?", m) = parse(X, m).
C4_OptionalMarkerIgnored ==
  ppc = "returned" => parseFaunaType(signature \o "?", mode) = parsed

\* C4 (amended): for every text X whose trimmed form does not itself end with
\* "?", and every mode m, parse(X + "?", m) = parse(X, m).
C4_OneOptionalMarkerIgnored ==
  (ppc = "returned" /\ ~endsWith(trim(signature), "?")) =>
    parseFaunaType(signature \o "?", mode) = parsed

C4_Witness ==
  /\ ppc = "returned"
  /\ signature = " Ref<User> "
  /\ mode = "create"
  /\ parsed = Returned("User | DocumentReference")
  /\ parseFaunaType(" Ref<User> ?", "create") = parsed

\* C10: parseFaunaType is total: on every text and mode it returns a string
\* and raises nothing, and every recursive call is on a strictly shorter text.
C10_ParserTotal ==
  ppc = "returned" =>
    /\ ~parsed.raised
    /\ shrinking(signature)

C10_Witness ==
  /\ ppc = "returned"
  /\ signature = "Array<>"
  /\ parsed = Returned("Array<>")
  /\ recursiveCalls(signature) = <<"">>

(***************************************************************************)
(* Vocabulary of the emitter's properties: the emitted text read back.     *)
(***************************************************************************)
lines(text) == split(text, "\n")

contains(text, sub) ==
  \E i \in 0..(Len(text) - Len(sub)) : slice(text, i, i + Len(sub)) = sub

\* the property lines of the declaration `type typeName = {` in a text given
\* as lines: the tab-indented lines that follow its header
propertyLines(ls, typeName) ==
  LET header == "type " \o typeName \o " = {"
      heads == {h \in 1..Len(ls) : ls[h] = header}
  IN IF heads = {} THEN <<>>
     ELSE LET h == SetMin(heads)
              stop == SetMin({m \in (h + 1)..(Len(ls) + 1) :
                                m = Len(ls) + 1 \/ ~startsWith(ls[m], "\t")})
          IN SubSeq(ls, h + 1, stop - 1)

declaration(text, typeName) == propertyLines(lines(text), typeName)

\* the lines of a text, given as lines, from the first one equal to header on
linesFrom(ls, header) ==
  SubSeq(ls, SetMin({q \in 1..Len(ls) : ls[q] = header}), Len(ls))

\* `name` or `name?` of a property line
propertyName(line) == slice(line, 1, indexOf(line, ":"))

\* the text between `: ` and the final `;` of a property line
propertyType(line) == slice(line, indexOf(line, ":") + 2, -1)

withoutMark(name) == IF endsWith(name, "?") THEN slice(name, 0, -1) ELSE name

\* the records the map has finished with, and those of them that have fields
processed == IF pc = "threw" THEN SubSeq(schema, 1, Len(schema) - 1) ELSE schema

withFields(batch) == SelectSeq(batch, LAMBDA r : r.fields.defined)

definedBlocks == SelectSeq(fieldTypes, LAMBDA b : b.defined)

modeOf(typeSuffix) ==
  CASE typeSuffix = "" -> "main"
    [] typeSuffix = "_Create" -> "create"
    [] typeSuffix = "_FaunaCreate" -> "faunaCreate"

keysOf(entries) == [k \in 1..Len(entries) |-> entries[k].key]

inSeq(x, seq) == \E k \in 1..Len(seq) : seq[k] = x

\* the entries a declaration of the record is written from: its fields, and
\* for the main declaration its fields (a computed field of the same name
\* giving the signature) followed by the other computed fields
declared(rec, typeSuffix) ==
  IF typeSuffix = "" /\ rec.computed_fields.defined
  THEN LET fs == rec.fields.entries
           cs == rec.computed_fields.entries
       IN [k \in 1..Len(fs) |->
             IF inSeq(fs[k].key, keysOf(cs))
             THEN Field(fs[k].key,
                        cs[CHOOSE q \in 1..Len(cs) : cs[q].key = fs[k].key].signature)
             ELSE fs[k]]
            \o SelectSeq(cs, LAMBDA c : ~inSeq(c.key, keysOf(fs)))
  ELSE rec.fields.entries

\* the block generateTypes emits for a record with fields
blockOf(rec) ==
  recordBlock(rec.name, genericTypes(rec).text, crudTypeStr(rec).text,
              faunaCrudTypeStr(rec).text)

sevenNames(name) ==
  <<name, name \o "_Create", name \o "_Update", name \o "_Replace",
    name \o "_FaunaCreate", name \o "_FaunaUpdate", name \o "_FaunaReplace">>

Range(seq) == {seq[k] : k \in 1..Len(seq)}

\* the names after `type ` on the lines of a text that declare a type
declaredNamesIn(ls) ==
  Bind(SelectSeq(ls, LAMBDA l : startsWith(l, "type ")), LAMBDA heads :
    [k \in 1..Len(heads) |-> slice(heads[k], 5, 5 + indexOf(sliceFrom(heads[k], 5), " "))])

declaredNames(text) == declaredNamesIn(lines(text))

\* the names the export list holds so far, in order
exportedNames ==
  LET ls == Tail(lines(exportTypeStr))
  IN [k \in 1..Len(ls) |-> slice(ls[k], 1, -1)]

\* the lines the mapping interface holds so far, after its header
mappingLines == Tail(lines(UserCollectionsTypeMappingStr))

mappingEntryLines(name) ==
  <<"\t" \o name \o ": {", "\t\tmain: " \o name \o ";",
    "\t\tcreate: " \o name \o "_Create;", "\t\treplace: " \o name \o "_Replace;",
    "\t\tupdate: " \o name \o "_Update;", "\t};">>

RECURSIVE flatten(_)
flatten(seqs) == IF Len(seqs) = 0 THEN <<>> ELSE Head(seqs) \o flatten(Tail(seqs))

namesOf(batch) == [k \in 1..Len(batch) |-> batch[k].name]

nonEmptyLines(text) == SelectSeq(lines(text), LAMBDA l : l # "")

\* what the scalar keywords and references are to be rendered as
ScalarTargets ==
  [String |-> "string", Boolean |-> "boolean", Long |-> "number", Int |-> "number",
   Time |-> "TimeStub", Date |-> "DateStub", Null |-> "null"]

Letters == "abcdefghijklmnopqrstuvwxyzABCDEFGHIJKLMNOPQRSTUVWXYZ"

isIdentifier(text) ==
  /\ Len(text) > 0
  /\ \A i \in 0..(Len(text) - 1) : includes(Letters, charAt(text, i))

isPlainRef(base) ==
  /\ startsWith(base, "Ref<")
  /\ endsWith(base, ">")
  /\ isIdentifier(slice(base, 4, -1))

\* a scalar keyword or Ref<X>, optionally followed by `?`
isSimple(fieldSignature) ==
  LET base == withoutMark(fieldSignature)
  IN base \in DOMAIN ScalarTargets \/ isPlainRef(base)

simpleTarget(fieldSignature, typeSuffix) ==
  LET base == withoutMark(fieldSignature)
  IN IF base \in DOMAIN ScalarTargets THEN ScalarTargets[base]
     ELSE LET X == slice(base, 4, -1)
          IN CASE typeSuffix = "" -> X
               [] typeSuffix = "_Create" -> X \o " | DocumentReference"
               [] typeSuffix = "_FaunaCreate" -> "DocumentReference"

(***************************************************************************)
(* Properties of the emitter, checked under Spec.                          *)
(***************************************************************************)

\* C1 as stated: in each of the three declarations of a record, the type text
\* written after a field's name is the parser's output for that field's
\* signature in the matching mode.
C1_EmitterMatchesParser ==
  \A k \in 1..Len(definedBlocks) : \A typeSuffix \in TypeSuffixes :
    LET rec == withFields(processed)[k]
        props == declaration(definedBlocks[k].text, rec.name \o typeSuffix)
        entries == declared(rec, typeSuffix)
    IN /\ Len(props) = Len(entries)
       /\ \A j \in 1..Len(entries) :
            propertyType(props[j]) =
              parseFaunaType(entries[j].signature, modeOf(typeSuffix)).text

\* C5: a field whose signature is a scalar keyword or Ref<X>, optionally
\* followed by `?`, is written as name, `?` exactly when the signature ends
\* with `?`, `: `, the type and `;`; the type carries no `?` and is the
\* scalar's target type, or X / X | DocumentReference / DocumentReference.
C5_SimpleFieldLines ==
  \A k \in 1..Len(definedBlocks) :
  Bind(lines(definedBlocks[k].text), LAMBDA ls : \A typeSuffix \in TypeSuffixes :
    LET rec == withFields(processed)[k]
        entries == declared(rec, typeSuffix)
    IN Bind(propertyLines(ls, rec.name \o typeSuffix), LAMBDA props :
       /\ Len(props) = Len(entries)
       /\ \A j \in 1..Len(entries) :
            isSimple(entries[j].signature) =>
              /\ props[j] = "\t" \o entries[j].key
                              \o (IF endsWith(entries[j].signature, "?") THEN "?" ELSE "")
                              \o ": " \o simpleTarget(entries[j].signature, typeSuffix)
                              \o ";"
              /\ ~endsWith(propertyType(props[j]), "?")
       /\ (rec.name = "User" /\ rec.fields.entries = userFields
             /\ ~rec.computed_fields.defined /\ typeSuffix = "") =>
            props = <<"\tname: string;", "\tage?: number;", "\tbestFriend?: User;">>))

C5_Witness ==
  /\ pc = "written"
  /\ Len(schema) = 2
  /\ schema[2] = Record("User", Object(userFields), Undefined)
  /\ declaration(fieldTypes[2].text, "User_Create")
       = <<"\tname: string;", "\tage?: number;",
           "\tbestFriend?: User | DocumentReference;">>
  /\ declaration(fieldTypes[2].text, "User_FaunaCreate")[3]
       = "\tbestFriend?: DocumentReference;"

\* C6: a record without `fields` yields no declaration, no export entry and
\* no mapping entry and raises nothing, and what the other records of the
\* batch yield is what they yield without it.
C6_FieldlessRecordSkipped ==
  LET kept == withFields(processed)
  IN /\ Len(fieldTypes) = Len(processed)
     /\ \A k \in 1..Len(processed) : fieldTypes[k].defined = processed[k].fields.defined
     /\ Len(definedBlocks) = Len(kept)
     /\ \A k \in 1..Len(kept) : definedBlocks[k].text = blockOf(kept[k])
     /\ exportTypeStr =
          "export type {" \o join([k \in 1..Len(kept) |-> exportEntries(kept[k].name)], "")
     /\ UserCollectionsTypeMappingStr =
          "interface UserCollectionsTypeMapping {"
            \o join([k \in 1..Len(kept) |-> mappingEntry(kept[k].name)], "")
     /\ pc = "threw" => schema[Len(schema)].fields.defined
     /\ pc = "written" =>
          nonEmptyLines(typesStr) =
            nonEmptyLines(documentText(definedBlocks, UserCollectionsTypeMappingStr,
                                       exportTypeStr, module))

C6_Witness ==
  /\ pc = "written"
  /\ Len(schema) = 2
  /\ ~schema[1].fields.defined
  /\ schema[2].fields.defined
  /\ Len(definedBlocks) = 1
  /\ Len(exportedNames) = 7

\* C7: each declaration lists its fields once each in input order (the main
\* one: the fields, then the computed fields no field names), and the
\* records come in batch order in the document, the export list and the
\* mapping interface.
C7_OrderPreserved ==
  LET kept == withFields(processed)
      inBatchOrder ==
        flatten([k \in 1..Len(kept) |->
          <<kept[k].name, kept[k].name \o "_Create", kept[k].name \o "_Replace",
            kept[k].name \o "_Update", kept[k].name \o "_FaunaCreate",
            kept[k].name \o "_FaunaReplace", kept[k].name \o "_FaunaUpdate">>])
  IN /\ \A k \in 1..Len(definedBlocks) :
          Bind(lines(definedBlocks[k].text), LAMBDA ls :
            LET rec == kept[k]
                fs == keysOf(rec.fields.entries)
                cs == IF rec.computed_fields.defined
                      THEN keysOf(rec.computed_fields.entries) ELSE <<>>
                names(typeSuffix) ==
                  Bind(propertyLines(ls, rec.name \o typeSuffix), LAMBDA props :
                    [j \in 1..Len(props) |-> withoutMark(propertyName(props[j]))])
            IN /\ names("_Create") = fs
               /\ names("_FaunaCreate") = fs
               /\ names("") = fs \o SelectSeq(cs, LAMBDA c : ~inSeq(c, fs)))
     /\ declaredNames(join(joinedElements(fieldTypes, module), "\n\n")) = inBatchOrder
     /\ SelectSeq(exportedNames, LAMBDA n : ~includes(n, "_")) = namesOf(kept)
     /\ SelectSeq(mappingLines, LAMBDA l : endsWith(l, ": {"))
          = [k \in 1..Len(kept) |-> "\t" \o kept[k].name \o ": {"]
     /\ pc = "written" => declaredNames(typesStr) = inBatchOrder

C7_Witness ==
  /\ pc = "written"
  /\ Len(schema) = 2
  /\ schema[1].name = "Post"
  /\ schema[1].fields.defined
  /\ keysOf(schema[1].fields.entries) = <<"b", "a", "c">>
  /\ schema[1].computed_fields.defined
  /\ keysOf(schema[1].computed_fields.entries) = <<"z", "c">>
  /\ schema[2].name = "User"
  /\ schema[2].fields.defined
  /\ declaration(typesStr, "Post") = <<"\tb: number;", "\ta: boolean;", "\tc: null;", "\tz: number;">>
  /\ declaration(typesStr, "Post_Create") = <<"\tb: number;", "\ta: boolean;", "\tc: TimeStub;">>

\* C8: computed_fields change the main declaration only: everything a record
\* emits from its _Create declaration on is what it emits without
\* computed_fields, and no computed field is a property of _Create or
\* _FaunaCreate.
C8_ComputedFieldsMainOnly ==
  \A k \in 1..Len(definedBlocks) :
    LET rec == withFields(processed)[k]
        bare == [rec EXCEPT !.computed_fields = Undefined]
        computedOnly ==
          IF rec.computed_fields.defined
          THEN {c \in Range(keysOf(rec.computed_fields.entries)) :
                  ~inSeq(c, keysOf(rec.fields.entries))}
          ELSE {}
    IN Bind(lines(definedBlocks[k].text), LAMBDA emitted :
       Bind(lines(blockOf(bare)), LAMBDA plain :
         /\ linesFrom(emitted, "type " \o rec.name \o "_Create = {")
              = linesFrom(plain, "type " \o rec.name \o "_Create = {")
         /\ \A typeSuffix \in {"_Create", "_FaunaCreate"} :
              Bind(propertyLines(emitted, rec.name \o typeSuffix), LAMBDA props :
                /\ props = propertyLines(plain, rec.name \o typeSuffix)
                /\ Len(props) = Len(rec.fields.entries)
                /\ \A j \in 1..Len(props) :
                     withoutMark(propertyName(props[j])) \notin computedOnly)))

C8_Witness ==
  /\ pc = "written"
  /\ Len(schema) = 1
  /\ schema[1] = Record("User", Object(userFields), Object(<<Field("full", "String")>>))
  /\ Len(declaration(typesStr, "User")) = 4
  /\ Len(declaration(typesStr, "User_Create")) = 3
  /\ Len(declaration(typesStr, "User_FaunaCreate")) = 3

\* C9: after any prefix of the batch, every processed record N with fields
\* has exactly the seven declarations (Replace an alias of Create, Update a
\* Partial of Create, likewise for the Fauna pair), the export list names
\* exactly those seven, and the mapping interface has one entry for N with
\* main, create, replace and update; no `_Fauna` name is in the mapping.
C9_SevenDeclarations ==
  LET kept == withFields(processed)
  IN /\ Len(definedBlocks) = Len(kept)
     /\ Bind(exportedNames, LAMBDA exported :
          /\ Len(exported) = 7 * Len(kept)
          /\ \A k \in 1..Len(kept) :
               Range(SubSeq(exported, 7 * k - 6, 7 * k)) = Range(sevenNames(kept[k].name)))
     /\ \A k \in 1..Len(kept) :
          Bind(lines(definedBlocks[k].text), LAMBDA ls :
            Bind(declaredNamesIn(ls), LAMBDA declaredHere :
              LET N == kept[k].name
              IN /\ Len(declaredHere) = 7
                 /\ Range(declaredHere) = Range(sevenNames(N))
                 /\ inSeq("type " \o N \o "_Replace = " \o N \o "_Create;", ls)
                 /\ inSeq("type " \o N \o "_Update = Partial<" \o N \o "_Create>;", ls)
                 /\ inSeq("type " \o N \o "_FaunaReplace = " \o N \o "_FaunaCreate;", ls)
                 /\ inSeq("type " \o N \o "_FaunaUpdate = Partial<" \o N
                            \o "_FaunaCreate>;", ls)))
     /\ mappingLines = flatten([k \in 1..Len(kept) |-> mappingEntryLines(kept[k].name)])
     /\ ~contains(UserCollectionsTypeMappingStr, "_Fauna")

C9_Witness ==
  /\ pc = "map"
  /\ Len(schema) = 2
  /\ schema[1].fields.defined
  /\ schema[2].fields.defined
  /\ Len(exportedNames) = 14
  /\ Len(mappingLines) = 12

\* C11 as stated: generating declarations for a record with a malformed field
\* signature (`Array<` or `Ref<` without its `>`, `Ref<>`) never raises:
\* generateTypes does not end in an exception, and the record gets its block.
C11_MalformedFieldNeverRaises ==
  /\ pc # "threw"
  /\ Len(fieldTypes) = Len(schema)

\* C12: the scalar mapping of parseFaunaType is exact and case-sensitive: the
\* text left after trimming and removing one trailing `?` maps String to
\* string, Boolean to boolean, Long and Int to number, Time to TimeStub, Date
\* to DateStub, Null to null; any other text that is no union, object literal,
\* array or reference (`string`, `Strings`, `Integer`) is returned unchanged.
C12_ScalarsExact ==
  ppc = "returned" =>
    LET trimmed == stripOptional(signature)
    IN /\ trimmed \in DOMAIN ScalarTargets => parsed = Returned(ScalarTargets[trimmed])
       /\ (/\ trimmed \notin DOMAIN ScalarTargets
           /\ ~isTopLevelUnion(trimmed) /\ ~isObjectLiteral(trimmed)
           /\ ~isArray(trimmed) /\ ~isRef(trimmed)) => parsed = Returned(trimmed)
       /\ signature \in {"string", "Strings", "Integer"} => parsed = Returned(signature)

C12_Witness ==
  /\ ppc = "returned"
  /\ signature = " Integer ?"
  /\ parsed = Returned("Integer")
  /\ parseFaunaType(" Long ?", mode) = Returned("number")

\* the trimmed pieces of str between the indices of cuts, in order
piecesBetween(str, cuts) ==
  Bind([i \in cuts |-> Cardinality({j \in cuts : j < i})], LAMBDA before :
    LET cut(k) == IF k = 0 THEN -1
                  ELSE IF k > Cardinality(cuts) THEN Len(str)
                  ELSE CHOOSE i \in cuts : before[i] = k - 1
    IN [k \in 1..(Cardinality(cuts) + 1) |-> trim(slice(str, cut(k - 1) + 1, cut(k)))])

\* the comma-separated pieces of the inside of an object literal: cut at the
\* commas where the depth counter is 0
segments(objSignature) ==
  LET inside == objectInside(objSignature)
  IN piecesBetween(inside, {i \in 0..(Len(inside) - 1) :
                              charAt(inside, i) = "," /\ depthAt(inside, i) = 0})

\* a property as the object literal is to render it in mode m
renderedProperty(prop, m) ==
  IF ~includes(prop, ":") THEN prop
  ELSE LET colon == SetMin(indicesOf(prop, ":"))
       IN trim(slice(prop, 0, colon)) \o ": "
            \o parseFaunaType(sliceFrom(prop, colon + 1), m).text

objectOf(props, m) ==
  "{ " \o join([k \in 1..Len(props) |-> renderedProperty(props[k], m)], "; ") \o " }"

\* the signature is read as an object literal
readAsObject(trimmed) == isObjectLiteral(trimmed) /\ ~isTopLevelUnion(trimmed)

\* C13 as stated: an object literal is rendered as `{ `, its comma-separated
\* properties rendered in order and joined by `; `, and ` }`, every
\* comma-separated piece being a property (count kept).
C13_ObjectKeepsEveryProperty ==
  (ppc = "returned" /\ readAsObject(stripOptional(signature))) =>
    parsed = Returned(objectOf(segments(stripOptional(signature)), mode))

\* C13 (amended): an object literal is rendered as `{ `, its non-empty
\* comma-separated properties rendered in order and joined by `; `, and ` }`:
\* a property is cut at its first `:`, the trimmed name kept (a trailing `?`
\* included), the value parsed in the same mode; a property without `:` is
\* passed through; an empty piece is dropped.
C13_ObjectKeepsNonEmptyProperties ==
  (ppc = "returned" /\ readAsObject(stripOptional(signature))) =>
    /\ parsed = Returned(objectOf(SelectSeq(segments(stripOptional(signature)),
                                            LAMBDA p : p # ""), mode))
    /\ (signature = "{ a: Int, b: { c: String } }" /\ mode = "main") =>
         parsed = Returned("{ a: number; b: { c: string } }")

C13_Witness ==
  /\ ppc = "returned"
  /\ signature = "{ k: Int, b, j?: Ref<A> }"
  /\ mode = "create"
  /\ parsed = Returned("{ k: number; b; j?: A | DocumentReference }")

\* the text holds `Ref<` with a `>` somewhere after it
containsRef(text) ==
  \E i \in 0..(Len(text) - 5) :
    startsWith(sliceFrom(text, i), "Ref<") /\ includes(sliceFrom(text, i + 4), ">")

\* the results of parsing each text of a sequence in mode m
eachParsed(texts, m) == [k \in 1..Len(texts) |-> parseFaunaType(texts[k], m).text]

\* C14: the mode influences reference rendering only: a signature without
\* `Ref<...>` parses to the same string in the three modes, and the result
\* for a union, an object literal and an array is built from the results of
\* parsing its branches, property values and element in the caller's mode.
C14_ModeOnlyForRefs ==
  ppc = "returned" =>
    LET trimmed == stripOptional(signature)
    IN /\ ~containsRef(signature) =>
            \A m \in Modes : parseFaunaType(signature, m) = parsed
       /\ isTopLevelUnion(trimmed) =>
            parsed = Returned(join(eachParsed(splitUnion(trimmed), mode), " | "))
       /\ readAsObject(trimmed) =>
            parsed = Returned(objectOf(SelectSeq(segments(trimmed), LAMBDA p : p # ""),
                                       mode))
       /\ (isArray(trimmed) /\ ~isTopLevelUnion(trimmed) /\ ~isObjectLiteral(trimmed)) =>
            parsed = Returned("Array<" \o parseFaunaType(arrayInside(trimmed), mode).text
                                \o ">")

C14_Witness ==
  /\ ppc = "returned"
  /\ signature = "Array<{ a: Int, b: { c: String } } | Null>"
  /\ ~containsRef(signature)
  /\ mode = "faunaCreate"
  /\ parsed = Returned("Array<{ a: number; b: { c: string } } | null>")
  /\ parseFaunaType("{ k: Ref<A> | Null }", "faunaCreate")
       = Returned("{ k: DocumentReference | null }")

\* every bracket of the text is closed in order: no prefix closes more than
\* it opened, and nothing is left open
balanced(text) == neverNegative(text) /\ netOpen(text, 0, Len(text) - 1) = 0

\* the indices of the `|` of a text that lie outside every bracket pair
outerBars(text) ==
  {i \in 0..(Len(text) - 1) : charAt(text, i) = "|" /\ netOpen(text, 0, i) = 0}

\* the text has the form S1 | ... | Sn, n >= 2, with balanced S1..Sn
isUnionOfBalanced(text) ==
  /\ balanced(text)
  /\ outerBars(text) # {}
  /\ \A i \in outerBars(text) :
       /\ i >= 1 /\ charAt(text, i - 1) = " "
       /\ i + 1 < Len(text) /\ charAt(text, i + 1) = " "

\* S1..Sn of a text of that form: the pieces between the ` | `
alternatives(text) ==
  Bind(outerBars(text), LAMBDA bars :
    Bind([i \in bars |-> Cardinality({j \in bars : j < i})], LAMBDA before :
      LET bar(k) == CHOOSE i \in bars : before[i] = k - 1
          n == Cardinality(bars) + 1
      IN [k \in 1..n |->
            slice(text, IF k = 1 THEN 0 ELSE bar(k - 1) + 2,
                        IF k = n THEN Len(text) ELSE Max(bar(k) - 1, 0))]))

\* C15 as stated: for balanced S1..Sn (n >= 2) without a `|` outside brackets
\* and every mode m, parse("S1 | ... | Sn", m) is parse(S1, m), ...,
\* parse(Sn, m) joined in order with " | ".
C15_UnionDistributes ==
  (ppc = "returned" /\ isUnionOfBalanced(signature)) =>
    parsed = Returned(join(eachParsed(alternatives(signature), mode), " | "))

\* C15 (amended): the same for S1..Sn whose last, Sn, does not still end
\* with `?` once trimmed and relieved of one trailing `?`; the union test
\* comes before the object, array and reference tests.
C15_UnionDistributesOneMark ==
  (ppc = "returned" /\ isUnionOfBalanced(signature)) =>
    LET S == alternatives(signature)
    IN /\ ~endsWith(stripOptional(S[Len(S)]), "?") =>
            parsed = Returned(join(eachParsed(S, mode), " | "))
       /\ (signature = "Ref<A> | Ref<B>" /\ mode = "main") => parsed = Returned("A | B")
       /\ (signature = "Array<Ref<A>> | Array<Ref<B>>" /\ mode = "create") =>
            parsed = Returned("Array<A | DocumentReference> | Array<B | DocumentReference>")
       /\ (signature = "{ a: Int } | { b?: Ref<A> }" /\ mode = "main") =>
            parsed = Returned("{ a: number } | { b?: A }")

C15_Witness ==
  /\ ppc = "returned"
  /\ signature = "{ a: Int } | { b?: Ref<A> } | Null"
  /\ isUnionOfBalanced(signature)
  /\ alternatives(signature) = <<"{ a: Int }", "{ b?: Ref<A> }", "Null">>
  /\ mode = "faunaCreate"
  /\ parsed = Returned("{ a: number } | { b?: DocumentReference } | null")

\* C16 as stated: a field whose signature is a union S1 | ... | Sn outside
\* brackets is written with the renderings of S1..Sn in order, joined with
\* " | ": the emitted type is made of n renderings, none dropped, whether or
\* not S1 is an Array<...>.
C16_NoAlternativeDropped ==
  \A k \in 1..Len(definedBlocks) :
  Bind(lines(definedBlocks[k].text), LAMBDA ls : \A typeSuffix \in TypeSuffixes :
    LET rec == withFields(processed)[k]
        entries == declared(rec, typeSuffix)
    IN Bind(propertyLines(ls, rec.name \o typeSuffix), LAMBDA props :
       /\ Len(props) = Len(entries)
       /\ \A j \in 1..Len(entries) :
            isUnionOfBalanced(withoutMark(entries[j].signature)) =>
              LET S == alternatives(withoutMark(entries[j].signature))
                  type == propertyType(props[j])
              IN type = join([i \in 1..Len(S) |-> fieldTypeText(S[i], typeSuffix).text],
                             " | ")))

\* C17 as stated: a field whose signature is an identifier that is none of
\* the seven scalar keywords (`Stringish`, `Integer`, `Dated`, `Tag`),
\* optionally followed by `?`, is written with exactly that identifier as its
\* type; the `?` goes on the field name only, the type does not end with `?`.
C17_IdentifierPassedThrough ==
  \A k \in 1..Len(definedBlocks) :
  Bind(lines(definedBlocks[k].text), LAMBDA ls : \A typeSuffix \in TypeSuffixes :
    LET rec == withFields(processed)[k]
        entries == declared(rec, typeSuffix)
    IN Bind(propertyLines(ls, rec.name \o typeSuffix), LAMBDA props :
       /\ Len(props) = Len(entries)
       /\ \A j \in 1..Len(entries) :
            LET identifier == withoutMark(entries[j].signature)
            IN (isIdentifier(identifier) /\ identifier \notin DOMAIN ScalarTargets) =>
                 /\ props[j] = "\t" \o entries[j].key
                                 \o (IF endsWith(entries[j].signature, "?") THEN "?" ELSE "")
                                 \o ": " \o identifier \o ";"
                 /\ ~endsWith(propertyType(props[j]), "?")))

====
